---- MODULE Spec2Model ----
(***************************************************************************)
(* The chat console of src/pages/Chat/index.tsx (function Main): the       *)
(* tenant config load and OAuth token refresh run by the mount effect,     *)
(* the chat-list and message fetches, the outbound send, and the handlers  *)
(* of the render layer.  Every await of the source is a point where the    *)
(* event loop may run another callback, so every async function is cut     *)
(* into one action per continuation; the remote services answer each       *)
(* request with success or failure, nondeterministically.                  *)
(***************************************************************************)
EXTENDS Integers, Sequences, FiniteSets, TLC

VARIABLES
    \* ---- authentication provider and tenant document store (external)
    email,              \* auth.currentUser?.email ("none": no signed-in user)
    store,              \* collection 'companies': tenant id -> document
    \* ---- per-mount variables of Main mutated by the mount effect's closures
    companyId,          \* let companyId
    ghlConfig,          \* let ghlConfig
    WHAPI_ACCESS_TOKEN, \* let WHAPI_ACCESS_TOKEN
    pc,                 \* position of the mount effect's ghlToken() call
    newTokenData,       \* the OAuth response held by ghlToken
    \* ---- component state (useState)
    chats,
    selectedChatId,
    messages,
    newMessage,
    isLoading,
    selectedIcon,
    mountRender,        \* no state update since mount: the mount render is current
    selectedMessage,    \* useState selectedMessage: None or Some(message id)
    \* ---- the document outside the component
    contextMenu,        \* an element with id 'contextMenu' exists in the document
    \* ---- asynchronous operations in flight
    effectFetches,      \* selection effect: conversation id -> requests in flight
    sends,              \* handleSendMessage calls awaiting the gateway
    loops,              \* retry loops started by the WhatsApp icon and by refresh
    \* ---- history of the requests issued (observation only)
    docReads,           \* tenant ids whose document was read
    docWrites,          \* tenant ids whose document was written
    chatsBearers,       \* bearer tokens of the startup chat-list requests
    oauthRequests,      \* parameters of the OAuth exchanges requested, in order
    searchCalls,        \* access tokens of the search calls, in order
    searchResult,       \* how the search call ended
    sendOutcome,        \* what the last handleSendMessage call or completion did
    sendCount,          \* send requests issued so far
    clicks,             \* retry loops started by the user so far
    bearers,            \* bearer tokens of the gateway requests issued by the
                        \* handlers, the selection effect and the retry loops
    forwards            \* forward requests issued, in order

vars == <<email, store, companyId, ghlConfig, WHAPI_ACCESS_TOKEN, pc, newTokenData,
          chats, selectedChatId, messages, newMessage, isLoading, selectedIcon,
          effectFetches, sends, loops,
          docReads, docWrites, chatsBearers, oauthRequests, searchCalls, searchResult,
          sendOutcome, sendCount, clicks, mountRender, bearers,
          selectedMessage, contextMenu, forwards>>

startupVars == <<email, store, companyId, ghlConfig, WHAPI_ACCESS_TOKEN, pc, newTokenData,
                 docReads, docWrites, chatsBearers, oauthRequests, searchCalls, searchResult>>

uiVars == <<chats, selectedChatId, messages, newMessage, isLoading, selectedIcon>>

asyncVars == <<effectFetches, sends, loops, sendOutcome, sendCount, clicks>>

renderVars == <<mountRender, bearers>>

forwardVars == <<selectedMessage, contextMenu, forwards>>

-----------------------------------------------------------------------------
(* Bounds of the model *)

\* forward requests issued in one session
MaxForwards == 2
\* send requests issued in one session
MaxSends == 2
\* selection-effect message requests in flight at once
MaxInFlight == 2
\* retry loops the user starts in one session (WhatsApp icon, refresh)
MaxClicks == 1

-----------------------------------------------------------------------------
(* Values *)

Null == "null"
Undefined == "undefined"

BeverlyEmail == "admin@beverly.com"
BillertEmail == "admin@billert.com"
\* the emails a session may carry: the two tenants' users, another user, no user
Emails == {BeverlyEmail, BillertEmail, "user@other.com", "none"}
TenantIds == {"014", "011"}

\* a tenant document as stored before the session
TenantDoc(t) ==
    [exists |-> TRUE, ghl_id |-> "id" \o t, ghl_secret |-> "secret" \o t,
     refresh_token |-> "refresh" \o t, whapiToken |-> "whapi" \o t,
     access_token |-> "access" \o t]
\* no document under the key
NoDoc ==
    [exists |-> FALSE, ghl_id |-> Undefined, ghl_secret |-> Undefined,
     refresh_token |-> Undefined, whapiToken |-> Undefined,
     access_token |-> Undefined]

\* token pairs the OAuth provider may return
OAuthResponses ==
    { [access_token |-> a, refresh_token |-> r] : a \in {"at1", "at2"}, r \in {"rt1", "rt2"} }
NoTokenData == [access_token |-> Undefined, refresh_token |-> Undefined]

ChatIds == {"c1", "c2"}

\* text is a sequence of characters
Hi == <<"h", "i">>
Yo == <<"y", "o">>
\* what the user may type
Drafts == { <<>>, <<" ", " ">>, <<" ", "a">> }

\* an optional value: None when absent, Some(x) when present
None == <<>>
Some(x) == <<x>>

\* messages as the gateway returns them for a conversation, newest first;
\* text is None when the remote message carries none
RemoteMessages(c) ==
    IF c = "c1"
    THEN << [id |-> "c1m2", text |-> None, from_me |-> FALSE, timestamp |-> 2,
             type |-> "image"],
            [id |-> "c1m1", text |-> Some([body |-> Hi]), from_me |-> FALSE,
             timestamp |-> 1, type |-> "text"] >>
    ELSE << [id |-> "c2m1", text |-> Some([body |-> Yo]), from_me |-> TRUE,
             timestamp |-> 1, type |-> "text"] >>

\* chat lists the gateway may return (a last message is kept by the fields the
\* component reads: its id and its optional text)
ChatsResponses ==
    { << [id |-> "c1", name |-> "Alice",
          last_message |-> Some([id |-> "c1m2", text |-> None])],
         [id |-> "c2", name |-> Undefined, last_message |-> None] >>,
      << [id |-> "c2", name |-> "Bob",
          last_message |-> Some([id |-> "c2m1", text |-> Some([body |-> Yo])])] >> }

-----------------------------------------------------------------------------
(* Pure functions *)

\* String.prototype.trim
RECURSIVE TrimStart(_)
TrimStart(s) ==
    IF s = <<>> THEN <<>>
    ELSE IF Head(s) = " " THEN TrimStart(Tail(s)) ELSE s

RECURSIVE TrimEnd(_)
TrimEnd(s) ==
    IF s = <<>> THEN <<>>
    ELSE IF s[Len(s)] = " " THEN TrimEnd(SubSeq(s, 1, Len(s) - 1)) ELSE s

trim(s) == TrimEnd(TrimStart(s))

\* MapMessage without the fallback to "": the body of a message without text
\* is the undefined value, written as a text whose one piece is no character
MapMessageNoFallback(m, c) ==
    [id |-> m.id,
     text |-> [body |-> IF m.text # None THEN m.text[1].body ELSE <<Undefined>>],
     from_me |-> m.from_me,
     createdAt |-> m.timestamp,
     type |-> m.type,
     chat |-> c]

\* the mapping of a remote message applied by every message fetch; chat is the
\* conversation whose list was requested (kept for observation only)
MapMessage(m, c) ==
    [id |-> m.id,
     text |-> [body |-> IF m.text # None THEN m.text[1].body ELSE <<>>],
     from_me |-> m.from_me,
     createdAt |-> m.timestamp,
     type |-> m.type,
     chat |-> c]

MapMessages(c) == [i \in 1..Len(RemoteMessages(c)) |-> MapMessage(RemoteMessages(c)[i], c)]

\* the text 'No Messages', as a text of one piece
NoMessages == <<"No Messages">>

\* an entry of the rendered chat list: the label chat.name ?? chat.id, and the
\* preview span, which exists only when chat.last_message is truthy and then
\* shows the body when text and body are truthy, 'No Messages' otherwise
RenderChat(chat) ==
    [id |-> chat.id,
     label |-> IF chat.name # Undefined THEN chat.name ELSE chat.id,
     preview |-> IF chat.last_message = None
                 THEN None
                 ELSE LET text == chat.last_message[1].text
                      IN  Some(IF text # None /\ text[1].body # <<>>
                               THEN text[1].body
                               ELSE NoMessages)]

\* chats.map(chat => ...) of the render
RenderedChats(list) == [i \in 1..Len(list) |-> RenderChat(list[i])]

\* the width in px of a message bubble: '320' for an image, else
\* Math.min(message.text.body.length * 15, 350)
BubbleWidth(message) ==
    IF message.type = "image"
    THEN 320
    ELSE IF Len(message.text.body) * 15 < 350
         THEN Len(message.text.body) * 15
         ELSE 350

\* Rendered without the reverse
RenderedUnreversed(list) == [i \in 1..Len(list) |-> list[i]]

\* messages.slice().reverse(): the order in which the thread is rendered
Rendered(list) == [i \in 1..Len(list) |-> list[Len(list) + 1 - i]]

\* SelectCompanyId without its second branch
SelectCompanyIdFirstOnly(e, current) ==
    IF e = BeverlyEmail THEN "014" ELSE current

\* the tenant id chosen from the signed-in email, starting from the current one
SelectCompanyId(e, current) ==
    IF e = BeverlyEmail THEN "014"
    ELSE IF e = BillertEmail THEN "011"
    ELSE current

\* MergeTokens that leaves the stored refresh token as it was
MergeAccessTokenOnly(d, t) ==
    [d EXCEPT !.exists = TRUE, !.access_token = t.access_token]

\* setDoc(..., {merge: true}) of the token pair
MergeTokens(d, t) ==
    [d EXCEPT !.exists = TRUE, !.access_token = t.access_token,
              !.refresh_token = t.refresh_token]

-----------------------------------------------------------------------------
(* Initial state: Main is mounted, no effect has run yet *)

Init ==
    /\ email \in Emails
    /\ store \in { [t \in TenantIds |-> IF t \in present THEN TenantDoc(t) ELSE NoDoc]
                   : present \in SUBSET TenantIds }
    /\ companyId = "014"
    /\ ghlConfig = [ghl_id |-> "", ghl_secret |-> "", refresh_token |-> ""]
    /\ WHAPI_ACCESS_TOKEN = ""
    /\ pc = "mount"
    /\ newTokenData = NoTokenData
    /\ chats = <<>>
    /\ selectedChatId = Null
    /\ messages = <<>>
    /\ newMessage = <<>>
    /\ isLoading = FALSE
    /\ selectedIcon = Null
    /\ effectFetches = [c \in ChatIds |-> 0]
    /\ sends = <<>>
    /\ loops = <<>>
    /\ docReads = {}
    /\ docWrites = {}
    /\ chatsBearers = {}
    /\ oauthRequests = <<>>
    /\ searchCalls = <<>>
    /\ searchResult = "none"
    /\ sendOutcome = "none"
    /\ sendCount = 0
    /\ clicks = 0
    /\ mountRender = TRUE
    /\ bearers = {}
    /\ selectedMessage = None
    /\ contextMenu \in BOOLEAN
    /\ forwards = <<>>

-----------------------------------------------------------------------------
(* The mount effect: ghlToken -> fetchConfigFromDatabase -> fetchChatsWithRetry,
   then the OAuth exchange, the store write and the search call *)

\* the OAuth request ghlToken posts, built from ghlConfig
OAuthParams(cfg) ==
    [client_id |-> cfg.ghl_id, client_secret |-> cfg.ghl_secret,
     grant_type |-> "refresh_token", refresh_token |-> cfg.refresh_token,
     user_type |-> "Location"]

\* the tenant document ghlToken writes the token pair to
TokenDocId == "014"

\* useEffect(() => { ghlToken() }, []): ghlToken calls fetchConfigFromDatabase,
\* which picks the tenant id and awaits getDoc
ghlToken ==
    /\ UNCHANGED forwardVars
    /\ pc = "mount"
    /\ companyId' = SelectCompanyId(email, companyId)
    /\ docReads' = docReads \cup {companyId'}
    /\ pc' = "getDoc"
    /\ UNCHANGED <<email, store, ghlConfig, WHAPI_ACCESS_TOKEN, newTokenData,
                   docWrites, chatsBearers, oauthRequests, searchCalls, searchResult>>
    /\ UNCHANGED <<uiVars, asyncVars, renderVars>>

\* fetchConfigFromDatabase posting the OAuth request together with the chat-list
\* request instead of leaving it to ghlToken after the chat-list fetch
fetchConfigFromDatabaseOAuthFirst ==
    /\ UNCHANGED forwardVars
    /\ pc = "getDoc"
    /\ \/ /\ pc' = "error"
          /\ UNCHANGED <<ghlConfig, WHAPI_ACCESS_TOKEN, isLoading, chatsBearers,
                         oauthRequests, mountRender>>
       \/ /\ ~store[companyId].exists
          /\ oauthRequests' = Append(oauthRequests, OAuthParams(ghlConfig))
          /\ pc' = "oauth"
          /\ UNCHANGED <<ghlConfig, WHAPI_ACCESS_TOKEN, isLoading, chatsBearers,
                         mountRender>>
       \/ /\ store[companyId].exists
          /\ ghlConfig' = [ghl_id |-> store[companyId].ghl_id,
                           ghl_secret |-> store[companyId].ghl_secret,
                           refresh_token |-> store[companyId].refresh_token]
          /\ WHAPI_ACCESS_TOKEN' = store[companyId].whapiToken
          /\ isLoading' = TRUE
          /\ mountRender' = FALSE
          /\ chatsBearers' = chatsBearers \cup {WHAPI_ACCESS_TOKEN'}
          /\ oauthRequests' = Append(oauthRequests, OAuthParams(ghlConfig'))
          /\ pc' = "chats"
    /\ UNCHANGED <<email, store, companyId, newTokenData, docReads, docWrites,
                   searchCalls, searchResult>>
    /\ UNCHANGED <<chats, selectedChatId, messages, newMessage, selectedIcon>>
    /\ UNCHANGED <<asyncVars, bearers>>

\* fetchConfigFromDatabase without the return on a missing document: the chat
\* list is requested with the token as it is
fetchConfigFromDatabaseNoExistsCheck ==
    /\ UNCHANGED forwardVars
    /\ pc = "getDoc"
    /\ \/ /\ pc' = "error"
          /\ UNCHANGED <<ghlConfig, WHAPI_ACCESS_TOKEN, isLoading, chatsBearers,
                         oauthRequests, mountRender>>
       \/ /\ ~store[companyId].exists
          /\ isLoading' = TRUE
          /\ mountRender' = FALSE
          /\ chatsBearers' = chatsBearers \cup {WHAPI_ACCESS_TOKEN}
          /\ pc' = "chats"
          /\ UNCHANGED <<ghlConfig, WHAPI_ACCESS_TOKEN, oauthRequests>>
       \/ /\ store[companyId].exists
          /\ ghlConfig' = [ghl_id |-> store[companyId].ghl_id,
                           ghl_secret |-> store[companyId].ghl_secret,
                           refresh_token |-> store[companyId].refresh_token]
          /\ WHAPI_ACCESS_TOKEN' = store[companyId].whapiToken
          /\ isLoading' = TRUE
          /\ mountRender' = FALSE
          /\ chatsBearers' = chatsBearers \cup {WHAPI_ACCESS_TOKEN'}
          /\ pc' = "chats"
          /\ UNCHANGED oauthRequests
    /\ UNCHANGED <<email, store, companyId, newTokenData, docReads, docWrites,
                   searchCalls, searchResult>>
    /\ UNCHANGED <<chats, selectedChatId, messages, newMessage, selectedIcon>>
    /\ UNCHANGED <<asyncVars, bearers>>

\* getDoc has resolved: the rest of fetchConfigFromDatabase.  A rejected read is
\* re-thrown through both catch blocks; a missing document returns to ghlToken,
\* which posts the OAuth request; a document is copied to ghlConfig and
\* WHAPI_ACCESS_TOKEN and the startup fetchChatsWithRetry issues its request
fetchConfigFromDatabase ==
    /\ UNCHANGED forwardVars
    /\ pc = "getDoc"
    /\ \/ /\ pc' = "error"
          /\ UNCHANGED <<ghlConfig, WHAPI_ACCESS_TOKEN, isLoading, chatsBearers,
                         oauthRequests, mountRender>>
       \/ /\ ~store[companyId].exists
          /\ oauthRequests' = Append(oauthRequests, OAuthParams(ghlConfig))
          /\ pc' = "oauth"
          /\ UNCHANGED <<ghlConfig, WHAPI_ACCESS_TOKEN, isLoading, chatsBearers,
                         mountRender>>
       \/ /\ store[companyId].exists
          /\ ghlConfig' = [ghl_id |-> store[companyId].ghl_id,
                           ghl_secret |-> store[companyId].ghl_secret,
                           refresh_token |-> store[companyId].refresh_token]
          /\ WHAPI_ACCESS_TOKEN' = store[companyId].whapiToken
          /\ isLoading' = TRUE
          /\ mountRender' = FALSE
          /\ chatsBearers' = chatsBearers \cup {WHAPI_ACCESS_TOKEN'}
          /\ pc' = "chats"
          /\ UNCHANGED oauthRequests
    /\ UNCHANGED <<email, store, companyId, newTokenData, docReads, docWrites,
                   searchCalls, searchResult>>
    /\ UNCHANGED <<chats, selectedChatId, messages, newMessage, selectedIcon>>
    /\ UNCHANGED <<asyncVars, bearers>>

\* the startup chat-list request has settled: one attempt, the list replaced on
\* success, loading cleared either way; control returns to ghlToken, which posts
\* the OAuth request
fetchChatsWithRetry ==
    /\ UNCHANGED forwardVars
    /\ pc = "chats"
    /\ \/ \E data \in ChatsResponses : chats' = data
       \/ UNCHANGED chats
    /\ isLoading' = FALSE
    /\ oauthRequests' = Append(oauthRequests, OAuthParams(ghlConfig))
    /\ pc' = "oauth"
    /\ UNCHANGED <<email, store, companyId, ghlConfig, WHAPI_ACCESS_TOKEN, newTokenData,
                   docReads, docWrites, chatsBearers, searchCalls, searchResult>>
    /\ UNCHANGED <<selectedChatId, messages, newMessage, selectedIcon>>
    /\ mountRender' = FALSE
    /\ UNCHANGED <<asyncVars, bearers>>

\* ghlTokenExchange posting the OAuth request once more after a failure
ghlTokenExchangeRetrying ==
    /\ UNCHANGED forwardVars
    /\ pc = "oauth"
    /\ \/ /\ newTokenData' \in OAuthResponses
          /\ pc' = "setDoc"
          /\ UNCHANGED oauthRequests
       \/ /\ Len(oauthRequests) = 1
          /\ oauthRequests' = Append(oauthRequests, OAuthParams(ghlConfig))
          /\ UNCHANGED <<pc, newTokenData>>
       \/ /\ Len(oauthRequests) > 1
          /\ pc' = "error"
          /\ UNCHANGED <<newTokenData, oauthRequests>>
    /\ UNCHANGED <<email, store, companyId, ghlConfig, WHAPI_ACCESS_TOKEN,
                   docReads, docWrites, chatsBearers, searchCalls,
                   searchResult>>
    /\ UNCHANGED <<uiVars, asyncVars, renderVars>>

\* the OAuth exchange has settled: on success ghlToken awaits setDoc of the
\* returned pair, on failure the error is re-thrown
ghlTokenExchange ==
    /\ UNCHANGED forwardVars
    /\ pc = "oauth"
    /\ \/ /\ newTokenData' \in OAuthResponses
          /\ pc' = "setDoc"
       \/ /\ pc' = "error"
          /\ UNCHANGED newTokenData
    /\ UNCHANGED <<email, store, companyId, ghlConfig, WHAPI_ACCESS_TOKEN,
                   docReads, docWrites, chatsBearers, oauthRequests, searchCalls,
                   searchResult>>
    /\ UNCHANGED <<uiVars, asyncVars, renderVars>>

\* setDoc has settled: the merge write is in the store and searchConversation
\* issues its request with the new access token; a rejected write is re-thrown
ghlTokenSetDoc ==
    /\ UNCHANGED forwardVars
    /\ pc = "setDoc"
    /\ \/ /\ store' = [store EXCEPT ![TokenDocId] = MergeTokens(@, newTokenData)]
          /\ docWrites' = docWrites \cup {TokenDocId}
          /\ searchCalls' = Append(searchCalls, newTokenData.access_token)
          /\ pc' = "search"
       \/ /\ pc' = "error"
          /\ UNCHANGED <<store, docWrites, searchCalls>>
    /\ UNCHANGED <<email, companyId, ghlConfig, WHAPI_ACCESS_TOKEN, newTokenData,
                   docReads, chatsBearers, oauthRequests, searchResult>>
    /\ UNCHANGED <<uiVars, asyncVars, renderVars>>

\* the search request has settled: searchConversation logs a failure and returns
\* normally either way, so ghlToken completes
searchConversation ==
    /\ UNCHANGED forwardVars
    /\ pc = "search"
    /\ searchResult' \in {"ok", "failed"}
    /\ pc' = "done"
    /\ UNCHANGED <<email, store, companyId, ghlConfig, WHAPI_ACCESS_TOKEN, newTokenData,
                   docReads, docWrites, chatsBearers, oauthRequests, searchCalls>>
    /\ UNCHANGED <<uiVars, asyncVars, renderVars>>

NextStartup ==
    \/ ghlToken
    \/ fetchConfigFromDatabase
    \/ fetchChatsWithRetry
    \/ ghlTokenExchange
    \/ ghlTokenSetDoc
    \/ searchConversation

SpecStartup == Init /\ [][NextStartup]_vars

-----------------------------------------------------------------------------
(* Selection and the message fetch of the selection effect *)

InFlight == effectFetches["c1"] + effectFetches["c2"]

\* let WHAPI_ACCESS_TOKEN = '' is executed by every render, so the closures of a
\* render after the mount render read a variable nothing has assigned
RenderToken == ""

\* the token a closure reads when it builds a request: the variable the config
\* load assigns when the closure was made by the mount render (mount),
\* its own render's variable otherwise
ClosureToken(mount) == IF mount THEN WHAPI_ACCESS_TOKEN ELSE RenderToken

\* onClick of a chat-list entry: setSelectedChatId(chat.id); when the selection
\* changes, the effect on [selectedChatId] runs with the new id: it sets loading
\* and issues one request for that conversation
setSelectedChatId(c) ==
    /\ UNCHANGED forwardVars
    /\ \E i \in 1..Len(chats) : chats[i].id = c
    /\ c # selectedChatId
    /\ InFlight < MaxInFlight
    /\ selectedChatId' = c
    /\ isLoading' = TRUE
    /\ effectFetches' = [effectFetches EXCEPT ![c] = @ + 1]
    /\ mountRender' = FALSE
    /\ bearers' = bearers \cup {ClosureToken(mountRender')}
    /\ UNCHANGED <<chats, messages, newMessage, selectedIcon>>
    /\ UNCHANGED <<sends, loops, sendOutcome, sendCount, clicks>>
    /\ UNCHANGED startupVars

\* the effect's request for conversation c has settled: the list is replaced by
\* the mapped response on success, loading is cleared either way; there is no
\* retry and no check of the current selection
effectFetchMessagesWithRetry(c) ==
    /\ UNCHANGED forwardVars
    /\ effectFetches[c] > 0
    /\ effectFetches' = [effectFetches EXCEPT ![c] = @ - 1]
    /\ \/ messages' = MapMessages(c)
       \/ UNCHANGED messages
    /\ isLoading' = FALSE
    /\ mountRender' = FALSE
    /\ UNCHANGED <<chats, selectedChatId, newMessage, selectedIcon, bearers>>
    /\ UNCHANGED <<sends, loops, sendOutcome, sendCount, clicks>>
    /\ UNCHANGED startupVars

-----------------------------------------------------------------------------
(* The draft and the outbound send *)

\* onChange of the textarea
setNewMessage(d) ==
    /\ UNCHANGED forwardVars
    /\ d # newMessage
    /\ newMessage' = d
    /\ mountRender' = FALSE
    /\ UNCHANGED <<chats, selectedChatId, messages, isLoading, selectedIcon, bearers>>
    /\ UNCHANGED <<asyncVars, startupVars>>

\* SendIgnored without the trim
SendIgnoredNoTrim(text, chatId) == text = <<>> \/ chatId = Null

\* the early return of handleSendMessage
SendIgnored(text, chatId) == trim(text) = <<>> \/ chatId = Null

\* the message handleSendMessage builds from the gateway's answer; n numbers the
\* request and stands for data.messageId
NewMsg(n, text, chatId) ==
    [id |-> "sent" \o ToString(n),
     text |-> [body |-> text],
     from_me |-> TRUE,
     createdAt |-> 0,
     type |-> "text",
     chat |-> chatId]

\* Enter or the Send button: handleSendMessage up to its await.  The call keeps
\* the messages, chats, newMessage and selectedChatId of the render it was made in
handleSendMessage ==
    /\ UNCHANGED forwardVars
    /\ IF SendIgnored(newMessage, selectedChatId)
       THEN /\ sendOutcome' = "ignored"
            /\ UNCHANGED <<sends, sendCount, bearers>>
       ELSE /\ sendCount < MaxSends
            /\ sendCount' = sendCount + 1
            /\ sends' = Append(sends, [n |-> sendCount', chatId |-> selectedChatId,
                                       text |-> newMessage, messages |-> messages,
                                       chats |-> chats])
            /\ bearers' = bearers \cup {ClosureToken(mountRender)}
            /\ sendOutcome' = "issued"
    /\ UNCHANGED <<effectFetches, loops, clicks, mountRender>>
    /\ UNCHANGED <<uiVars, startupVars>>

RemoveAt(q, i) == SubSeq(q, 1, i - 1) \o SubSeq(q, i + 1, Len(q))

\* chats.map(chat => chat.id === selectedChatId ? {...chat, last_message: newMsg} : chat)
WithLastMessage(list, chatId, msg) ==
    [i \in 1..Len(list) |->
        IF list[i].id = chatId
        THEN [list[i] EXCEPT !.last_message =
                 Some([id |-> msg.id, text |-> Some([body |-> msg.text.body])])]
        ELSE list[i]]

\* sendMessageResponse whose catch block clears the draft
sendMessageResponseClearingDraft(i) ==
    /\ UNCHANGED forwardVars
    /\ i \in 1..Len(sends)
    /\ sends' = RemoveAt(sends, i)
    /\ \/ LET s == sends[i]
              newMsg == NewMsg(s.n, s.text, s.chatId)
          IN  /\ messages' = Append(s.messages, newMsg)
              /\ chats' = WithLastMessage(s.chats, s.chatId, newMsg)
              /\ newMessage' = <<>>
              /\ mountRender' = FALSE
              /\ sendOutcome' = "ok"
       \/ /\ sendOutcome' = "failed"
          /\ newMessage' = <<>>
          /\ mountRender' = FALSE
          /\ UNCHANGED <<messages, chats>>
    /\ UNCHANGED <<selectedChatId, isLoading, selectedIcon, bearers>>
    /\ UNCHANGED <<effectFetches, loops, sendCount, clicks>>
    /\ UNCHANGED startupVars

\* the send request of sends[i] has settled: on success the new message is
\* appended to the list the call kept, the preview is set in the chat list the
\* call kept and the draft is cleared; on failure nothing is changed
sendMessageResponse(i) ==
    /\ UNCHANGED forwardVars
    /\ i \in 1..Len(sends)
    /\ sends' = RemoveAt(sends, i)
    /\ \/ LET s == sends[i]
              newMsg == NewMsg(s.n, s.text, s.chatId)
          IN  /\ messages' = Append(s.messages, newMsg)
              /\ chats' = WithLastMessage(s.chats, s.chatId, newMsg)
              /\ newMessage' = <<>>
              /\ mountRender' = FALSE
              /\ sendOutcome' = "ok"
       \/ /\ sendOutcome' = "failed"
          /\ UNCHANGED <<messages, chats, newMessage, mountRender>>
    /\ UNCHANGED <<selectedChatId, isLoading, selectedIcon, bearers>>
    /\ UNCHANGED <<effectFetches, loops, sendCount, clicks>>
    /\ UNCHANGED startupVars

-----------------------------------------------------------------------------
(* The source icons *)

\* the icons other than WhatsApp ('fb' stands for 'fb', 'ig', 'gmb', 'mail')
handleIconClick(iconId) ==
    /\ UNCHANGED forwardVars
    /\ messages' = <<>>
    /\ selectedIcon' = iconId
    /\ mountRender' = FALSE
    /\ UNCHANGED <<chats, selectedChatId, newMessage, isLoading, bearers>>
    /\ UNCHANGED <<asyncVars, startupVars>>

-----------------------------------------------------------------------------
(* The retry loops: handleWhatsappClick.fetchMessagesWithRetry ("whatsapp"),
   handleRefreshClick.fetchChatsWithRetry ("refreshChats") and
   handleRefreshClick.fetchMessagesWithRetry ("refreshMessages").
   A loop is a record: the conversation id its closure kept, retryCount, the
   number of requests it has issued, and where it stands: "request" (awaiting
   the gateway), "delay" (awaiting the retry timer), "success" (returned from
   inside the loop) or "exhausted" (left the loop after maxRetries failures) *)

WhatsappMaxRetries == 20
RefreshChatsMaxRetries == 10
RefreshMessagesMaxRetries == 10

maxRetries(kind) ==
    CASE kind = "whatsapp" -> WhatsappMaxRetries
      [] kind = "refreshChats" -> RefreshChatsMaxRetries
      [] kind = "refreshMessages" -> RefreshMessagesMaxRetries

\* a loop entering its first iteration: retryCount = 0 < maxRetries, the first
\* request is issued; mount tells whether the closure is the mount render's
NewLoop(kind, chatId, mount) ==
    [kind |-> kind, chatId |-> chatId, retryCount |-> 0, requests |-> 1,
     phase |-> "request", mount |-> mount]

\* handleWhatsappClick whose fetchMessagesWithRetry lacks the check at entry
handleWhatsappClickNoEntryCheck ==
    /\ UNCHANGED forwardVars
    /\ selectedIcon' = "ws"
    /\ mountRender' = FALSE
    /\ clicks < MaxClicks
    /\ clicks' = clicks + 1
    /\ loops' = Append(loops, NewLoop("whatsapp", selectedChatId, mountRender))
    /\ bearers' = bearers \cup {ClosureToken(mountRender)}
    /\ isLoading' = TRUE
    /\ UNCHANGED <<chats, selectedChatId, messages, newMessage>>
    /\ UNCHANGED <<effectFetches, sends, sendOutcome, sendCount>>
    /\ UNCHANGED startupVars

\* the WhatsApp icon: setSelectedIcon, then fetchMessagesWithRetry(), which
\* returns at once when no conversation is selected
handleWhatsappClick ==
    /\ UNCHANGED forwardVars
    /\ selectedIcon' = "ws"
    /\ mountRender' = FALSE
    /\ IF selectedChatId = Null
       THEN UNCHANGED <<loops, isLoading, clicks, bearers>>
       ELSE /\ clicks < MaxClicks
            /\ clicks' = clicks + 1
            /\ loops' = Append(loops, NewLoop("whatsapp", selectedChatId, mountRender))
            /\ bearers' = bearers \cup {ClosureToken(mountRender)}
            /\ isLoading' = TRUE
    /\ UNCHANGED <<chats, selectedChatId, messages, newMessage>>
    /\ UNCHANGED <<effectFetches, sends, sendOutcome, sendCount>>
    /\ UNCHANGED startupVars

\* the refresh button: fetchChatsWithRetry() starts; the fetchMessagesWithRetry
\* it calls on success keeps the selectedChatId of the render of the click
handleRefreshClick ==
    /\ UNCHANGED forwardVars
    /\ clicks < MaxClicks
    /\ clicks' = clicks + 1
    /\ loops' = Append(loops, NewLoop("refreshChats", selectedChatId, mountRender))
    /\ bearers' = bearers \cup {ClosureToken(mountRender)}
    /\ isLoading' = TRUE
    /\ mountRender' = FALSE
    /\ UNCHANGED <<chats, selectedChatId, messages, newMessage, selectedIcon>>
    /\ UNCHANGED <<effectFetches, sends, sendOutcome, sendCount>>
    /\ UNCHANGED startupVars

\* MessagesLoopSuccess without the finally block
MessagesLoopSuccessNoFinally(i) ==
    /\ loops[i].kind \in {"whatsapp", "refreshMessages"}
    /\ messages' = MapMessages(loops[i].chatId)
    /\ loops' = [loops EXCEPT ![i].phase = "success"]
    /\ mountRender' = FALSE
    /\ UNCHANGED <<chats, bearers, isLoading>>

\* try block of a message loop after a successful response: the list is
\* replaced, the function returns, finally clears loading
MessagesLoopSuccess(i) ==
    /\ loops[i].kind \in {"whatsapp", "refreshMessages"}
    /\ messages' = MapMessages(loops[i].chatId)
    /\ loops' = [loops EXCEPT ![i].phase = "success"]
    /\ isLoading' = FALSE
    /\ mountRender' = FALSE
    /\ UNCHANGED <<chats, bearers>>

\* ChatsLoopSuccess whose message fetch reads the selection of the moment
ChatsLoopSuccessCurrentSelection(i) ==
    /\ loops[i].kind = "refreshChats"
    /\ \E data \in ChatsResponses : chats' = data
    /\ loops' = IF selectedChatId = Null
                THEN [loops EXCEPT ![i].phase = "success"]
                ELSE Append([loops EXCEPT ![i].phase = "success"],
                            NewLoop("refreshMessages", selectedChatId, loops[i].mount))
    /\ bearers' = IF selectedChatId = Null
                  THEN bearers
                  ELSE bearers \cup {ClosureToken(loops[i].mount)}
    /\ isLoading' = FALSE
    /\ mountRender' = FALSE
    /\ UNCHANGED messages

\* ChatsLoopSuccess keeping, for a conversation already listed, the last
\* message of the previous list
ChatsLoopSuccessMerging(i) ==
    /\ loops[i].kind = "refreshChats"
    /\ \E data \in ChatsResponses :
          chats' = [k \in 1..Len(data) |->
                      IF \E j \in 1..Len(chats) : chats[j].id = data[k].id
                      THEN [data[k] EXCEPT !.last_message =
                              chats[CHOOSE j \in 1..Len(chats) :
                                        chats[j].id = data[k].id].last_message]
                      ELSE data[k]]
    /\ loops' = IF loops[i].chatId = Null
                THEN [loops EXCEPT ![i].phase = "success"]
                ELSE Append([loops EXCEPT ![i].phase = "success"],
                            NewLoop("refreshMessages", loops[i].chatId, loops[i].mount))
    /\ bearers' = IF loops[i].chatId = Null
                  THEN bearers
                  ELSE bearers \cup {ClosureToken(loops[i].mount)}
    /\ isLoading' = FALSE
    /\ mountRender' = FALSE
    /\ UNCHANGED messages

\* try block of the refresh chat loop after a successful response: the chat list
\* is replaced, fetchMessagesWithRetry() is called (it returns at once when the
\* click was made with no conversation selected, else it sets loading and issues
\* its first request), the function returns, finally clears loading
ChatsLoopSuccess(i) ==
    /\ loops[i].kind = "refreshChats"
    /\ \E data \in ChatsResponses : chats' = data
    /\ loops' = IF loops[i].chatId = Null
                THEN [loops EXCEPT ![i].phase = "success"]
                ELSE Append([loops EXCEPT ![i].phase = "success"],
                            NewLoop("refreshMessages", loops[i].chatId, loops[i].mount))
    /\ bearers' = IF loops[i].chatId = Null
                  THEN bearers
                  ELSE bearers \cup {ClosureToken(loops[i].mount)}
    /\ isLoading' = FALSE
    /\ mountRender' = FALSE
    /\ UNCHANGED messages

\* LoopFailure that also empties the message list
LoopFailureClearsMessages(i) ==
    /\ loops' = [loops EXCEPT ![i].retryCount = @ + 1, ![i].phase = "delay"]
    /\ messages' = <<>>
    /\ mountRender' = FALSE
    /\ UNCHANGED <<chats, isLoading, bearers>>

\* catch block of a loop: retryCount++, then the retry timer is awaited
LoopFailure(i) ==
    /\ loops' = [loops EXCEPT ![i].retryCount = @ + 1, ![i].phase = "delay"]
    /\ UNCHANGED <<chats, messages, isLoading, mountRender, bearers>>

\* the request of loop i has settled
retryResponse(i) ==
    /\ UNCHANGED forwardVars
    /\ i \in 1..Len(loops)
    /\ loops[i].phase = "request"
    /\ \/ MessagesLoopSuccess(i)
       \/ ChatsLoopSuccess(i)
       \/ LoopFailure(i)
    /\ UNCHANGED <<selectedChatId, newMessage, selectedIcon>>
    /\ UNCHANGED <<effectFetches, sends, sendOutcome, sendCount, clicks>>
    /\ UNCHANGED startupVars

\* retryDelayElapsed with the while condition off by one (<= for <)
retryDelayElapsedOffByOne(i) ==
    /\ UNCHANGED forwardVars
    /\ i \in 1..Len(loops)
    /\ loops[i].phase = "delay"
    /\ IF loops[i].retryCount <= maxRetries(loops[i].kind)
       THEN /\ loops' = [loops EXCEPT ![i].phase = "request", ![i].requests = @ + 1]
            /\ bearers' = bearers \cup {ClosureToken(loops[i].mount)}
            /\ isLoading' = TRUE
       ELSE /\ loops' = [loops EXCEPT ![i].phase = "exhausted"]
            /\ isLoading' = FALSE
            /\ UNCHANGED bearers
    /\ mountRender' = FALSE
    /\ UNCHANGED <<chats, selectedChatId, messages, newMessage, selectedIcon>>
    /\ UNCHANGED <<effectFetches, sends, sendOutcome, sendCount, clicks>>
    /\ UNCHANGED startupVars

\* retryDelayElapsed that abandons a loop whose conversation is no longer the
\* selected one
retryDelayElapsedCancelling(i) ==
    /\ UNCHANGED forwardVars
    /\ i \in 1..Len(loops)
    /\ loops[i].phase = "delay"
    /\ IF loops[i].chatId # selectedChatId
       THEN /\ loops' = [loops EXCEPT ![i].phase = "cancelled"]
            /\ isLoading' = FALSE
            /\ UNCHANGED bearers
       ELSE IF loops[i].retryCount < maxRetries(loops[i].kind)
       THEN /\ loops' = [loops EXCEPT ![i].phase = "request", ![i].requests = @ + 1]
            /\ bearers' = bearers \cup {ClosureToken(loops[i].mount)}
            /\ isLoading' = TRUE
       ELSE /\ loops' = [loops EXCEPT ![i].phase = "exhausted"]
            /\ isLoading' = FALSE
            /\ UNCHANGED bearers
    /\ mountRender' = FALSE
    /\ UNCHANGED <<chats, selectedChatId, messages, newMessage, selectedIcon>>
    /\ UNCHANGED <<effectFetches, sends, sendOutcome, sendCount, clicks>>
    /\ UNCHANGED startupVars

\* the retry timer of loop i has fired: finally clears loading, then the while
\* condition is tested: either the next iteration sets loading and issues a
\* request, or the loop is left
retryDelayElapsed(i) ==
    /\ UNCHANGED forwardVars
    /\ i \in 1..Len(loops)
    /\ loops[i].phase = "delay"
    /\ IF loops[i].retryCount < maxRetries(loops[i].kind)
       THEN /\ loops' = [loops EXCEPT ![i].phase = "request", ![i].requests = @ + 1]
            /\ bearers' = bearers \cup {ClosureToken(loops[i].mount)}
            /\ isLoading' = TRUE
       ELSE /\ loops' = [loops EXCEPT ![i].phase = "exhausted"]
            /\ isLoading' = FALSE
            /\ UNCHANGED bearers
    /\ mountRender' = FALSE
    /\ UNCHANGED <<chats, selectedChatId, messages, newMessage, selectedIcon>>
    /\ UNCHANGED <<effectFetches, sends, sendOutcome, sendCount, clicks>>
    /\ UNCHANGED startupVars

-----------------------------------------------------------------------------
(* The click on a message: handleContextMenu -> showContextMenu ->
   handleForwardToChat -> handleForwardMessage *)

\* n copies of x
Copies(n, x) == [k \in 1..n |-> x]

\* the request handleForwardMessage(message, chatId) posts from a closure
ForwardRequest(messageId, chatId, mount) ==
    [messageId |-> messageId, chatId |-> chatId, bearer |-> ClosureToken(mount)]

\* handleContextMenu that forwards the message of the click itself
handleContextMenuForwardingClicked(k, n) ==
    /\ k \in 1..Len(messages)
    /\ n \in (IF messages[k].type = "text" THEN {1, 2} ELSE {1})
    /\ IF contextMenu
       THEN /\ selectedMessage' = Some(messages[k].id)
            /\ mountRender' = FALSE
            /\ Len(forwards) + n <= MaxForwards
            /\ forwards' = forwards \o
                   Copies(n, ForwardRequest(messages[k].id, messages[k].id, mountRender))
            /\ bearers' = bearers \cup {ClosureToken(mountRender)}
       ELSE UNCHANGED <<selectedMessage, forwards, mountRender, bearers>>
    /\ UNCHANGED contextMenu
    /\ UNCHANGED <<uiVars, asyncVars, startupVars>>

\* a click (or right click) on the k-th stored message.  The bubble carries the
\* handler, and so does the text inside a text message, so one click runs
\* handleContextMenu n times (1 or 2) in the same render.  Each run looks up
\* the element 'contextMenu': without it nothing is done; with it the clicked
\* message is stored in selectedMessage and handleForwardToChat(message.id)
\* reads the selectedMessage of the render: when one was selected before, it
\* is forwarded with the clicked message's id as chatId
handleContextMenu(k, n) ==
    /\ k \in 1..Len(messages)
    /\ n \in (IF messages[k].type = "text" THEN {1, 2} ELSE {1})
    /\ IF contextMenu
       THEN /\ selectedMessage' = Some(messages[k].id)
            /\ mountRender' = FALSE
            /\ IF selectedMessage # None
               THEN /\ Len(forwards) + n <= MaxForwards
                    /\ forwards' = forwards \o
                           Copies(n, ForwardRequest(selectedMessage[1], messages[k].id,
                                                    mountRender))
                    /\ bearers' = bearers \cup {ClosureToken(mountRender)}
               ELSE UNCHANGED <<forwards, bearers>>
       ELSE UNCHANGED <<selectedMessage, forwards, mountRender, bearers>>
    /\ UNCHANGED contextMenu
    /\ UNCHANGED <<uiVars, asyncVars, startupVars>>

-----------------------------------------------------------------------------
(* Specifications *)

\* every callback of the component
Next ==
    \/ NextStartup
    \/ \E c \in ChatIds : setSelectedChatId(c)
    \/ \E c \in ChatIds : effectFetchMessagesWithRetry(c)
    \/ \E d \in Drafts : setNewMessage(d)
    \/ handleSendMessage
    \/ \E i \in 1..Len(sends) : sendMessageResponse(i)
    \/ handleIconClick("fb")
    \/ handleWhatsappClick
    \/ handleRefreshClick
    \/ \E i \in 1..Len(loops) : retryResponse(i)
    \/ \E i \in 1..Len(loops) : retryDelayElapsed(i)
    \/ \E k \in 1..Len(messages), n \in {1, 2} : handleContextMenu(k, n)

Spec == Init /\ [][Next]_vars

\* what a session of the first tenant's user holds once the mount effect has
\* completed (config read, chat list fetched, token pair written, search done)
\* and nothing is in flight
AfterStartup ==
    /\ email = BeverlyEmail
    /\ store = [t \in TenantIds |->
                  IF t = TokenDocId
                  THEN MergeTokens(TenantDoc(t),
                                   [access_token |-> "at1", refresh_token |-> "rt1"])
                  ELSE TenantDoc(t)]
    /\ companyId = "014"
    /\ ghlConfig = [ghl_id |-> TenantDoc("014").ghl_id,
                    ghl_secret |-> TenantDoc("014").ghl_secret,
                    refresh_token |-> TenantDoc("014").refresh_token]
    /\ WHAPI_ACCESS_TOKEN = TenantDoc("014").whapiToken
    /\ pc = "done"
    /\ newTokenData = [access_token |-> "at1", refresh_token |-> "rt1"]
    /\ chats \in ChatsResponses
    /\ newMessage = <<>>
    /\ isLoading = FALSE
    /\ mountRender = FALSE
    /\ selectedMessage = None
    /\ forwards = <<>>
    /\ selectedIcon = Null
    /\ effectFetches = [c \in ChatIds |-> 0]
    /\ sends = <<>>
    /\ loops = <<>>
    /\ docReads = {"014"}
    /\ docWrites = {TokenDocId}
    /\ chatsBearers = {TenantDoc("014").whapiToken}
    /\ oauthRequests = <<OAuthParams(ghlConfig)>>
    /\ searchCalls = <<"at1">>
    /\ searchResult = "ok"
    /\ sendOutcome = "none"
    /\ sendCount = 0
    /\ clicks = 0

\* the state right after startup: nothing selected, nothing on display
Loaded ==
    /\ AfterStartup
    /\ selectedChatId = Null
    /\ messages = <<>>
    /\ bearers = {}
    /\ contextMenu = FALSE

\* the state after the user has then opened a conversation of the chat list and
\* its messages have arrived
Opened ==
    /\ AfterStartup
    /\ \E i \in 1..Len(chats) : selectedChatId = chats[i].id
    /\ messages = MapMessages(selectedChatId)
    /\ bearers = {ClosureToken(mountRender)}
    /\ contextMenu = FALSE

\* the conversation view after startup: selection, its message fetch, the draft,
\* the send and the source icons
NextChat ==
    \/ \E c \in ChatIds : setSelectedChatId(c)
    \/ \E c \in ChatIds : effectFetchMessagesWithRetry(c)
    \/ \E d \in Drafts : setNewMessage(d)
    \/ handleSendMessage
    \/ \E i \in 1..Len(sends) : sendMessageResponse(i)
    \/ handleIconClick("fb")

SpecChat == Loaded /\ [][NextChat]_vars

\* the draft and the send after startup, with selection and its message fetch
NextSend ==
    \/ \E c \in ChatIds : setSelectedChatId(c)
    \/ \E c \in ChatIds : effectFetchMessagesWithRetry(c)
    \/ \E d \in Drafts : setNewMessage(d)
    \/ handleSendMessage
    \/ \E i \in 1..Len(sends) : sendMessageResponse(i)

SpecSend == Loaded /\ [][NextSend]_vars

\* the retry loops after startup, with selection and its message fetch
NextRetry ==
    \/ \E c \in ChatIds : setSelectedChatId(c)
    \/ \E c \in ChatIds : effectFetchMessagesWithRetry(c)
    \/ handleWhatsappClick
    \/ handleRefreshClick
    \/ \E i \in 1..Len(loops) : retryResponse(i)
    \/ \E i \in 1..Len(loops) : retryDelayElapsed(i)

SpecRetry == Loaded /\ [][NextRetry]_vars

\* the loops a session can hold: a refresh click starts a chat loop, whose
\* success starts a message loop
MaxLoops == MaxClicks + MaxClicks

\* SpecRetry where every request of a loop is answered and every retry timer
\* fires
SpecRetryFair ==
    /\ SpecRetry
    /\ \A i \in 1..MaxLoops :
          WF_vars(retryResponse(i)) /\ WF_vars(retryDelayElapsed(i))

\* the retry loops alone, started with or without a conversation open
NextLoop ==
    \/ handleWhatsappClick
    \/ handleRefreshClick
    \/ \E i \in 1..Len(loops) : retryResponse(i)
    \/ \E i \in 1..Len(loops) : retryDelayElapsed(i)

SpecLoop == (Loaded \/ Opened) /\ [][NextLoop]_vars

\* the conversation view after startup in a document with or without the
\* element 'contextMenu': selection, its message fetch and the clicks on messages
LoadedAnyDocument ==
    /\ AfterStartup
    /\ contextMenu \in BOOLEAN
    /\ selectedChatId = Null
    /\ messages = <<>>
    /\ bearers = {}

NextForward ==
    \/ \E c \in ChatIds : setSelectedChatId(c)
    \/ \E c \in ChatIds : effectFetchMessagesWithRetry(c)
    \/ \E k \in 1..Len(messages), n \in {1, 2} : handleContextMenu(k, n)

SpecForward == LoadedAnyDocument /\ [][NextForward]_vars

\* an open conversation with the draft, the send and the refresh button
NextRefresh ==
    \/ \E d \in Drafts : setNewMessage(d)
    \/ handleSendMessage
    \/ \E i \in 1..Len(sends) : sendMessageResponse(i)
    \/ handleRefreshClick
    \/ \E i \in 1..Len(loops) : retryResponse(i)
    \/ \E i \in 1..Len(loops) : retryDelayElapsed(i)

SpecRefresh == Opened /\ [][NextRefresh]_vars

\* Loaded is a state the mount effect leads to, Opened one the conversation view
\* leads to from there
LoadedReached == ~Loaded
OpenedReached == ~(Opened /\ selectedChatId = "c1")

-----------------------------------------------------------------------------
(* C1 *)

\* C1: the message list holds only messages fetched for, or sent to, the
\* selected conversation; in particular every step that stores a list stores
\* only messages of the conversation selected at that moment (a response for
\* conversation A arriving after B was selected is not stored)
C1_StoresOnlySelected ==
    [][messages' # messages =>
         \A k \in 1..Len(messages') : messages'[k].chat = selectedChatId']_vars

-----------------------------------------------------------------------------
(* C2, C3 *)

LoopIndexes == 1..Len(loops)

\* a loop that returned by success made one request more than it saw failures
\* and never more than maxRetries
C2_Counts ==
    \A i \in LoopIndexes :
        loops[i].phase = "success" =>
            /\ loops[i].requests = loops[i].retryCount + 1
            /\ loops[i].requests <= maxRetries(loops[i].kind)

\* the step on which loop i succeeds stores the response
C2_Stores ==
    \A i \in LoopIndexes :
        (loops[i].phase = "request" /\ loops'[i].phase = "success") =>
            IF loops[i].kind = "refreshChats"
            THEN chats' \in ChatsResponses
            ELSE messages' = MapMessages(loops[i].chatId)

\* a loop that has succeeded issues nothing more
C2_Stops ==
    \A i \in LoopIndexes : loops[i].phase = "success" => loops'[i] = loops[i]

\* C2: a retry loop whose first k-1 attempts fail and whose k-th succeeds
\* (k up to its maximum N, so in particular k = N) issues exactly k requests,
\* stores the successful result and issues no further request
C2_SuccessAfterFailures ==
    /\ []C2_Counts
    /\ [][C2_Stores /\ C2_Stops]_vars

\* a loop of each kind has succeeded on its last allowed attempt
C2_Witness ==
    /\ \E i \in LoopIndexes :
          /\ loops[i].kind = "refreshChats" /\ loops[i].phase = "success"
          /\ loops[i].requests = RefreshChatsMaxRetries
    /\ \E i \in LoopIndexes :
          /\ loops[i].kind = "refreshMessages" /\ loops[i].phase = "success"
          /\ loops[i].requests = RefreshMessagesMaxRetries
          /\ messages = MapMessages(loops[i].chatId)

\* a loop that gave up made exactly maxRetries requests, all failed
C3_Counts ==
    \A i \in LoopIndexes :
        loops[i].phase = "exhausted" =>
            /\ loops[i].requests = maxRetries(loops[i].kind)
            /\ loops[i].retryCount = maxRetries(loops[i].kind)

\* a step of a loop that is not its success (a failed attempt, a retry, giving
\* up) changes neither list, and a loop that gave up issues nothing more
C3_Frame ==
    \A i \in LoopIndexes :
        /\ (loops'[i] # loops[i] /\ loops'[i].phase # "success") =>
               (chats' = chats /\ messages' = messages)
        /\ loops[i].phase = "exhausted" => loops'[i] = loops[i]

\* C3: a retry loop whose every attempt fails issues exactly N requests, then
\* gives up, and none of its steps changes the chat list or the message list
C3_ExhaustionLeavesState ==
    /\ []C3_Counts
    /\ [][C3_Frame]_vars

\* the WhatsApp loop has given up with a chat list and a message list on display
C3_Witness ==
    \E i \in LoopIndexes :
        /\ loops[i].kind = "whatsapp" /\ loops[i].phase = "exhausted"
        /\ loops[i].requests = WhatsappMaxRetries
        /\ messages # <<>>
        /\ chats # <<>>

-----------------------------------------------------------------------------
(* C4, C5, C6 *)

\* the send of sends[i] completes successfully on this step
SendSucceeds(i) ==
    /\ i \in 1..Len(sends)
    /\ sends' = RemoveAt(sends, i)
    /\ sendOutcome' = "ok"

\* C4: a successful send appends exactly one new outbound message with the sent
\* text to the message list and sets the conversation's preview to that text,
\* leaving the other entries of the chat list as they are
C4_SendAppendsOne ==
    [][\A i \in 1..Len(sends) :
          SendSucceeds(i) =>
              /\ Len(messages') = Len(messages) + 1
              /\ SubSeq(messages', 1, Len(messages)) = messages
              /\ messages'[Len(messages')].from_me
              /\ messages'[Len(messages')].text.body = sends[i].text
              /\ Len(chats') = Len(chats)
              /\ \A k \in 1..Len(chats) :
                    IF chats[k].id = sends[i].chatId
                    THEN chats'[k].last_message # None
                         /\ chats'[k].last_message[1].text = Some([body |-> sends[i].text])
                    ELSE chats'[k] = chats[k]]_vars

\* text is empty or made of spaces only
IsBlank(text) == \A k \in 1..Len(text) : text[k] = " "

\* this step is a call of handleSendMessage
SendCalled ==
    \/ sendCount' # sendCount
    \/ sendOutcome' = "ignored" /\ sendOutcome # "ignored"

\* C5: a send invoked with an empty or whitespace-only draft, or with no
\* conversation selected, issues no request and leaves the message list, the
\* chat list, the draft and the loading flag unchanged
C5_EmptySendIsNoOp ==
    [][(SendCalled /\ (IsBlank(newMessage) \/ selectedChatId = Null)) =>
          /\ sends' = sends
          /\ sendCount' = sendCount
          /\ messages' = messages
          /\ chats' = chats
          /\ newMessage' = newMessage
          /\ isLoading' = isLoading]_vars

\* a send was ignored with a whitespace-only draft on a selected conversation
C5_Witness ==
    /\ sendOutcome = "ignored"
    /\ newMessage = <<" ", " ">>
    /\ selectedChatId # Null
    /\ sends = <<>>
    /\ sendCount = 0

\* C6: a change of the selected conversation empties the displayed list and
\* shows loading, so the previous conversation's messages are not displayed
\* while the new one is selected
C6_SwitchClearsMessages ==
    [][selectedChatId' # selectedChatId => (messages' = <<>> /\ isLoading')]_vars

-----------------------------------------------------------------------------
(* C7 - C10 *)

\* C7: once the OAuth exchange has succeeded, the search call is issued only
\* after the store write of both returned tokens has completed, it carries the
\* returned access token, and it is issued exactly once
C7_WriteThenOneSearch ==
    /\ Len(searchCalls) <= 1
    /\ pc \in {"search", "done"} <=> Len(searchCalls) = 1
    /\ Len(searchCalls) = 1 =>
          /\ searchCalls[1] = newTokenData.access_token
          /\ newTokenData \in OAuthResponses
          /\ \E t \in docWrites :
                /\ store[t].access_token = newTokenData.access_token
                /\ store[t].refresh_token = newTokenData.refresh_token

\* a token refresh has completed: pair written, one search call made
C7_Witness ==
    /\ pc = "done"
    /\ searchCalls = <<"at2">>
    /\ \E t \in docWrites : store[t].refresh_token = "rt2"

\* C8: the token pair is written to the document of the tenant id the config
\* was loaded from
C8_WriteToLoadedTenant ==
    \A t \in docWrites : t = companyId /\ t \in docReads

KnownEmails == {BeverlyEmail, BillertEmail}

\* C9: a session of neither tenant's user reads no tenant document and fetches
\* no tenant's chat list
C9_UnknownUserLoadsNothing ==
    email \notin KnownEmails => (docReads = {} /\ chatsBearers = {})

\* C10: 'admin@beverly.com' selects '014', 'admin@billert.com' selects '011',
\* and the document read (and copied to ghlConfig) is the one keyed by that id
C10_TenantFromEmail ==
    pc # "mount" =>
        /\ email = BeverlyEmail => (companyId = "014" /\ docReads = {"014"})
        /\ email = BillertEmail => (companyId = "011" /\ docReads = {"011"})
        /\ (email \in KnownEmails /\ ghlConfig.ghl_id # "") =>
              /\ ghlConfig.ghl_id = TenantDoc(companyId).ghl_id
              /\ ghlConfig.refresh_token = TenantDoc(companyId).refresh_token
              /\ WHAPI_ACCESS_TOKEN = TenantDoc(companyId).whapiToken

\* the second tenant's user has loaded the second tenant's config
C10_Witness ==
    /\ email = BillertEmail
    /\ pc = "chats"
    /\ docReads = {"011"}
    /\ ghlConfig.ghl_id = TenantDoc("011").ghl_id

-----------------------------------------------------------------------------
(* C11: the gateway token stays available after the config load *)

\* C11: once the config load has read the gateway token from the tenant
\* document, every gateway request issued by a handler, the selection effect or
\* a retry loop carries that token as its bearer credential
C11_BearerIsTenantToken ==
    WHAPI_ACCESS_TOKEN # "" => bearers \subseteq {WHAPI_ACCESS_TOKEN}

-----------------------------------------------------------------------------
(* C12: the order of the startup steps *)

\* C12 as stated: the chat-list request is not issued before the OAuth token
\* exchange has completed
C12_ChatsAfterOAuth == chatsBearers # {} => newTokenData # NoTokenData

\* C12: the startup order is config load, chat-list fetch, OAuth exchange: the
\* chat-list request is issued by the config load once the tenant document has
\* been read, no OAuth request exists while the chat-list request is pending,
\* and the OAuth request of a tenant whose document was found is posted only
\* after the chat-list request has been issued and has settled
C12_ChatsBeforeOAuth ==
    /\ chatsBearers # {} => companyId \in docReads
    /\ pc = "chats" => chatsBearers # {} /\ oauthRequests = <<>>
    /\ oauthRequests # <<>> => pc \notin {"mount", "getDoc", "chats"}
    /\ pc = "oauth" /\ store[companyId].exists => chatsBearers # {} /\ ~isLoading

\* the OAuth request has been posted after a chat-list fetch that answered
C12_Witness ==
    /\ pc = "oauth"
    /\ Len(oauthRequests) = 1
    /\ chatsBearers # {}
    /\ chats # <<>>
    /\ newTokenData = NoTokenData

-----------------------------------------------------------------------------
(* C13: retries of the startup chat-list fetch *)

\* C13: the startup chat-list fetch makes another attempt when its first
\* attempt fails: a step that settles the request without a chat list leaves
\* the fetch requesting
C13_StartupFetchRetries ==
    [][(pc = "chats" /\ chats' = <<>>) => pc' = "chats"]_vars

-----------------------------------------------------------------------------
(* C14: the loading flag around a retry loop *)

\* a chat-list or message fetch has started and has not exited
FetchInFlight ==
    \/ pc = "chats"
    \/ InFlight > 0
    \/ \E i \in LoopIndexes : loops[i].phase \in {"request", "delay"}

\* with every started fetch exited the flag is false
C14_IdleNotLoading == ~FetchInFlight => ~isLoading

\* a click that starts a loop and every further attempt of a loop set the flag;
\* the step on which a loop exits, by success or by exhaustion, clears it
C14_Steps ==
    /\ clicks' # clicks => Len(loops') = Len(loops) + 1 /\ isLoading'
    /\ \A i \in LoopIndexes :
          /\ (loops[i].phase = "delay" /\ loops'[i].phase = "request") => isLoading'
          /\ (loops[i].phase \in {"request", "delay"}
                /\ loops'[i].phase \in {"success", "exhausted"}) => ~isLoading'

\* C14: the loading flag is set when a retry loop is started and at each of its
\* attempts, is false after the step on which the loop exits (success or
\* exhaustion), and is false whenever no started fetch remains, so it stays
\* false until another fetch starts
C14_LoadingAroundLoop ==
    /\ []C14_IdleNotLoading
    /\ [][C14_Steps]_vars

\* a message loop has exited by success after a failed attempt, with the
\* selection effect's fetch of the same session exited too
C14_Witness ==
    /\ \E i \in LoopIndexes :
          /\ loops[i].kind = "whatsapp"
          /\ loops[i].phase = "success"
          /\ loops[i].retryCount > 0
    /\ ~FetchInFlight
    /\ ~isLoading

-----------------------------------------------------------------------------
(* C15: a message fetch entered with no conversation selected *)

\* the WhatsApp icon clicked with no conversation selected: no loop, no request,
\* the message list and the loading flag as they were
C15_WhatsappNoSelection ==
    (selectedChatId = Null /\ selectedIcon # "ws" /\ selectedIcon' = "ws") =>
        /\ loops' = loops
        /\ bearers' = bearers
        /\ messages' = messages
        /\ isLoading' = isLoading

\* a refresh clicked with no conversation selected: when its chat loop succeeds
\* the message fetch it calls returns at once, whatever is selected by then
C15_RefreshNoSelection ==
    \A i \in LoopIndexes :
        (loops[i].kind = "refreshChats" /\ loops[i].chatId = Null
            /\ loops[i].phase = "request" /\ loops'[i].phase = "success") =>
                /\ Len(loops') = Len(loops)
                /\ bearers' = bearers
                /\ messages' = messages

\* a loop past its entry keeps the conversation id it entered with and its next
\* step stays possible whatever the selection is
C15_EntryOnly ==
    \A i \in LoopIndexes :
        /\ loops[i].phase = "request" => ENABLED retryResponse(i)
        /\ loops[i].phase = "delay" => ENABLED retryDelayElapsed(i)
        /\ loops[i].kind # "refreshChats" => loops[i].chatId # Null

\* C15: a message fetch entered with no conversation selected issues no request
\* and changes neither the message list nor the loading flag; the check is made
\* at entry only, on the selection the handler's render saw, and a fetch past
\* its entry is not stopped by what the selection becomes
C15_NoSelectionNoOp ==
    /\ []C15_EntryOnly
    /\ [][C15_WhatsappNoSelection /\ C15_RefreshNoSelection]_vars

\* the WhatsApp icon and the refresh button were clicked with nothing selected,
\* a conversation was selected afterwards and the refresh's chat loop succeeded
\* without starting a message loop
C15_Witness ==
    /\ selectedIcon = "ws"
    /\ selectedChatId # Null
    /\ Len(loops) = 1
    /\ loops[1].kind = "refreshChats"
    /\ loops[1].chatId = Null
    /\ loops[1].phase = "success"

-----------------------------------------------------------------------------
(* C16: a started loop is never cancelled *)

\* no step removes a loop or changes the conversation a loop requests, and a
\* step that changes the selection or starts another fetch leaves every loop
\* where it stands
C16_Steps ==
    /\ Len(loops') >= Len(loops)
    /\ \A i \in LoopIndexes :
          /\ loops'[i].chatId = loops[i].chatId
          /\ loops'[i].kind = loops[i].kind
          /\ (selectedChatId' # selectedChatId \/ Len(loops') > Len(loops)
                \/ effectFetches' # effectFetches) =>
                 \/ loops'[i] = loops[i]
                 \/ loops[i].kind = "refreshChats" /\ loops'[i].phase = "success"

\* loop i, once started, ends by success or by exhaustion
C16_Terminates(i) ==
    (Len(loops) >= i) ~> (Len(loops) >= i /\ loops[i].phase \in {"success", "exhausted"})

\* C16: a retry loop, once started, is never cancelled: it keeps the
\* conversation id captured at its entry and, every request being answered and
\* every retry timer firing, ends by its first success or after maxRetries
\* failures, whatever is selected or fetched meanwhile
C16_RunsToCompletion ==
    /\ [][C16_Steps]_vars
    /\ \A i \in 1..MaxLoops : C16_Terminates(i)

\* a loop has ended by success after a failure, for a conversation that was no
\* longer the selected one
C16_Witness ==
    \E i \in LoopIndexes :
        /\ loops[i].kind = "whatsapp"
        /\ loops[i].phase = "success"
        /\ loops[i].retryCount > 0
        /\ loops[i].chatId # selectedChatId
        /\ messages = MapMessages(loops[i].chatId)

-----------------------------------------------------------------------------
(* C17: a failed send *)

\* C17: the step on which a send request fails leaves the message list, the
\* chat list and the draft as they were
C17_FailedSendChangesNothing ==
    [][\A i \in 1..Len(sends) :
          (sends' = RemoveAt(sends, i) /\ sendOutcome' = "failed") =>
              /\ messages' = messages
              /\ chats' = chats
              /\ newMessage' = newMessage]_vars

\* a send has just failed in an open conversation: the draft is still in the
\* input, the list holds the fetched messages and no message sent, and no
\* preview carries the draft
C17_Witness ==
    /\ sendOutcome = "failed"
    /\ sends = <<>>
    /\ trim(newMessage) # <<>>
    /\ messages = MapMessages(selectedChatId)
    /\ chats \in ChatsResponses

-----------------------------------------------------------------------------
(* C18: a failed config load or OAuth exchange *)

\* the OAuth request is posted at most once; a refresh ended by an error has
\* written nothing to the tenant store and has issued no search call
C18_ErrorState ==
    /\ Len(oauthRequests) <= 1
    /\ pc = "error" =>
          /\ docWrites = {}
          /\ searchCalls = <<>>
          /\ \A t \in TenantIds : store[t] \in {TenantDoc(t), NoDoc}

\* the failure of the document read or of the exchange ends the refresh on that
\* step, with no further request, and nothing follows an error
C18_ErrorSteps ==
    /\ (pc \in {"getDoc", "oauth"} /\ pc' = "error") =>
          /\ oauthRequests' = oauthRequests
          /\ store' = store
          /\ searchCalls' = searchCalls
    /\ pc = "error" => pc' = "error"

\* C18: when the read of the tenant document or the OAuth exchange fails, the
\* refresh ends in the error outcome (the error is re-thrown to the caller),
\* the OAuth request is not repeated, nothing is written to the tenant store
\* and no search call is issued
C18_FailureRethrownNoRetry ==
    /\ []C18_ErrorState
    /\ [][C18_ErrorSteps]_vars

\* the OAuth exchange has failed after the config and the chat list were loaded
C18_Witness ==
    /\ pc = "error"
    /\ Len(oauthRequests) = 1
    /\ newTokenData = NoTokenData
    /\ chats # <<>>

-----------------------------------------------------------------------------
(* C19: a failed search call *)

\* C19: a token refresh whose search call fails ends in the error outcome, not
\* in normal completion
C19_SearchFailureRethrown ==
    searchResult = "failed" => pc = "error"

-----------------------------------------------------------------------------
(* C20: the place of a sent message in the rendered thread *)

\* C20: when a send succeeds, the message just sent is rendered after every
\* message that was already in the list: it is the last entry of the rendered
\* thread
C20_SentRenderedLast ==
    [][\A i \in 1..Len(sends) :
          SendSucceeds(i) =>
              Rendered(messages')[Len(messages')] =
                  NewMsg(sends[i].n, sends[i].text, sends[i].chatId)]_vars

-----------------------------------------------------------------------------
(* C21: the rendered thread of a fetched list *)

\* the stored list is the mapped response of a message fetch
IsFetched(list) == \E c \in ChatIds : list = MapMessages(c)

Ascending(list) ==
    \A i, j \in 1..Len(list) : i < j => list[i].createdAt <= list[j].createdAt

Descending(list) ==
    \A i, j \in 1..Len(list) : i < j => list[i].createdAt >= list[j].createdAt

\* C21: while the stored list is what a message fetch returned (descending
\* timestamps), the rendered thread holds exactly the stored messages, each
\* once, in ascending order; it is the exact reverse of the stored list, which
\* the render leaves as it is
C21_RenderedAscending ==
    IsFetched(messages) =>
        LET r == Rendered(messages)
        IN  /\ Descending(messages)
            /\ Ascending(r)
            /\ Len(r) = Len(messages)
            /\ \A i \in 1..Len(messages) :
                  Cardinality({j \in 1..Len(r) : r[j] = messages[i]}) = 1
            /\ \A i \in 1..Len(r) : r[i] = messages[Len(messages) + 1 - i]
            /\ Rendered(r) = messages

\* the two fetched messages of a conversation are stored newest first and
\* rendered oldest first
C21_Witness ==
    /\ selectedChatId = "c1"
    /\ messages = MapMessages("c1")
    /\ Len(messages) = 2
    /\ Rendered(messages)[1].id = "c1m1"
    /\ Rendered(messages)[2].id = "c1m2"

-----------------------------------------------------------------------------
(* C22: the chat list after a chat-list fetch *)

\* C22: the step on which a chat-list fetch succeeds, at startup or in a
\* refresh, leaves the chat list equal to a response of the gateway, entry by
\* entry and in its order: nothing of the previous list is kept, a preview
\* set by a send included
C22_ChatsReplaced ==
    [][/\ (pc = "chats" /\ chats' # chats) => chats' \in ChatsResponses
       /\ \A i \in LoopIndexes :
             (loops[i].kind = "refreshChats" /\ loops[i].phase = "request"
                 /\ loops'[i].phase = "success") => chats' \in ChatsResponses]_vars

\* a send has put its preview on the open conversation and a refresh has then
\* replaced the list: the preview is gone
C22_Witness ==
    /\ selectedChatId = "c2"
    /\ sendOutcome = "ok"
    /\ sends = <<>>
    /\ \E k \in 1..Len(messages) : messages[k].id = "sent1"
    /\ \E i \in LoopIndexes :
          loops[i].kind = "refreshChats" /\ loops[i].phase = "success"
    /\ chats \in ChatsResponses

-----------------------------------------------------------------------------
(* C23: the rendered chat list *)

\* a conversation has a last message that carries a text body
HasBody(chat) ==
    /\ chat.last_message # None
    /\ chat.last_message[1].text # None
    /\ chat.last_message[1].text[1].body # <<>>

\* C23: every conversation of the chat list is rendered once, labelled with its
\* name when it has one and with its identifier otherwise, and with a preview
\* text: the body of its last message, or the placeholder when the last
\* message or its body is absent
C23_LabelAndPreview ==
    LET r == RenderedChats(chats)
    IN  /\ Len(r) = Len(chats)
        /\ \A i \in 1..Len(chats) :
              /\ r[i].id = chats[i].id
              /\ r[i].label = IF chats[i].name # Undefined
                              THEN chats[i].name ELSE chats[i].id
              /\ r[i].preview = IF HasBody(chats[i])
                                THEN Some(chats[i].last_message[1].text[1].body)
                                ELSE Some(NoMessages)

-----------------------------------------------------------------------------
(* C24: state written while a send was in flight *)

\* C24: the step on which a send succeeds discards nothing written while the
\* send was in flight: every message of the list at that moment is still in
\* the list afterwards, and every entry of the chat list other than the
\* conversation sent to is as it was at that moment
C24_SendKeepsConcurrentWrites ==
    [][\A i \in 1..Len(sends) :
          SendSucceeds(i) =>
              /\ \A k \in 1..Len(messages) :
                    \E j \in 1..Len(messages') : messages'[j] = messages[k]
              /\ \A k \in 1..Len(chats) :
                    chats[k].id # sends[i].chatId =>
                        \E j \in 1..Len(chats') : chats'[j] = chats[k]]_vars

-----------------------------------------------------------------------------
(* C25: the loading flag while a fetch is running *)

\* C25: the loading flag is true in every state in which a chat-list or
\* message fetch has been started and has not exited
C25_LoadingWhileFetching == FetchInFlight => isLoading

-----------------------------------------------------------------------------
(* C26: startup of a tenant without a document *)

\* ghlConfig as declared
EmptyConfig == [ghl_id |-> "", ghl_secret |-> "", refresh_token |-> ""]

\* the read of a missing document, when it does not fail, goes on to the OAuth
\* request: credentials and token stay empty, no chat-list request is issued,
\* and the request posted carries the empty credentials
C26_MissingStep ==
    (pc = "getDoc" /\ ~store[companyId].exists /\ pc' # "error") =>
        /\ pc' = "oauth"
        /\ ghlConfig' = EmptyConfig
        /\ WHAPI_ACCESS_TOKEN' = ""
        /\ chatsBearers' = {}
        /\ chats' = <<>>
        /\ oauthRequests' = <<OAuthParams(EmptyConfig)>>

\* as long as no chat-list request has been issued, the credentials and the
\* token are the empty defaults and an OAuth request posted carries them
C26_Defaults ==
    chatsBearers = {} =>
        /\ ghlConfig = EmptyConfig
        /\ WHAPI_ACCESS_TOKEN = ""
        /\ chats = <<>>
        /\ oauthRequests \in {<<>>, <<OAuthParams(EmptyConfig)>>}

\* C26: when the tenant document does not exist the config load returns
\* normally, leaves the gateway token and the OAuth credentials empty and
\* issues no chat-list request; the OAuth exchange is then still requested,
\* with empty client id, secret and refresh token
C26_MissingDocument ==
    /\ []C26_Defaults
    /\ [][C26_MissingStep]_vars

\* the OAuth exchange of a tenant without a document has been answered with a
\* token pair
C26_Witness ==
    /\ pc = "setDoc"
    /\ chatsBearers = {}
    /\ ghlConfig = EmptyConfig
    /\ oauthRequests = <<OAuthParams(EmptyConfig)>>
    /\ newTokenData \in OAuthResponses

-----------------------------------------------------------------------------
(* C27: the message fetch of a refresh *)

\* the loops of a kind, and among them those in a phase
LoopsOfKind(kind) == {i \in LoopIndexes : loops[i].kind = kind}
LoopsInPhase(kind, phase) == {i \in LoopsOfKind(kind) : loops[i].phase = phase}

\* there are no more message fetches of refreshes than chat loops that have
\* succeeded, and each follows a succeeded chat loop of the same conversation
C27_AfterSuccess ==
    /\ Cardinality(LoopsOfKind("refreshMessages"))
           <= Cardinality(LoopsInPhase("refreshChats", "success"))
    /\ \A j \in LoopsOfKind("refreshMessages") :
          \E i \in LoopsInPhase("refreshChats", "success") :
              i < j /\ loops[i].chatId = loops[j].chatId /\ loops[j].chatId # Null

\* the chat loop of a refresh keeps the selection of the click; a message fetch
\* of a refresh starts on the step on which a chat loop succeeds and is for the
\* conversation that loop kept; no other step of a chat loop starts one
C27_Steps ==
    /\ (clicks' # clicks /\ loops'[Len(loops')].kind = "refreshChats") =>
          loops'[Len(loops')].chatId = selectedChatId
    /\ (Len(loops') > Len(loops) /\ loops'[Len(loops')].kind = "refreshMessages") =>
          /\ Len(loops') = Len(loops) + 1
          /\ \E i \in LoopsInPhase("refreshChats", "request") :
                /\ loops'[i].phase = "success"
                /\ loops'[Len(loops')].chatId = loops[i].chatId
                /\ loops[i].chatId # Null
    /\ \A i \in LoopsOfKind("refreshChats") :
          (loops'[i] # loops[i] /\ loops'[i].phase \in {"delay", "exhausted"}) =>
              Cardinality({j \in 1..Len(loops') : loops'[j].kind = "refreshMessages"})
                  = Cardinality(LoopsOfKind("refreshMessages"))

\* C27: a refresh starts its message fetch only on the success of one of its
\* chat-list attempts, at most once, and for the conversation that was
\* selected when the button was clicked; a chat loop that fails or gives up
\* starts none
C27_RefreshMessageFetch ==
    /\ []C27_AfterSuccess
    /\ [][C27_Steps]_vars

\* the message fetch of a refresh has started for the conversation of the click
\* while another conversation is selected
C27_Witness ==
    \E j \in LoopsOfKind("refreshMessages") :
        /\ loops[j].chatId # selectedChatId
        /\ loops[j].phase = "request"
        /\ \E i \in LoopsInPhase("refreshChats", "success") :
              loops[i].chatId = loops[j].chatId /\ loops[i].retryCount > 0

-----------------------------------------------------------------------------
(* C28: the forward issued by a click on a message *)

\* nothing is forwarded before a message has been selected
C28_NoneSelectedNoneForwarded == selectedMessage = None => forwards = <<>>

\* a step that issues forward requests is a click made while a message was
\* selected: each request forwards that message, not the clicked one (which the
\* click stores as the next selection), with the clicked message's id as chatId
C28_Steps ==
    forwards' # forwards =>
        /\ selectedMessage # None
        /\ selectedMessage' # None
        /\ Len(forwards') > Len(forwards)
        /\ SubSeq(forwards', 1, Len(forwards)) = forwards
        /\ \A j \in (Len(forwards) + 1)..Len(forwards') :
              /\ forwards'[j].messageId = selectedMessage[1]
              /\ forwards'[j].chatId = selectedMessage'[1]

\* C28: a click on a message issues a forward request only when a message had
\* been selected by an earlier click; the message forwarded is the one selected
\* before, the chat id passed is the clicked message's id, and the first click
\* after mount forwards nothing
C28_ForwardsPreviousSelection ==
    /\ []C28_NoneSelectedNoneForwarded
    /\ [][C28_Steps]_vars

\* the second click, on another message, has forwarded the message of the
\* first click to a chat id that is the second message's id
C28_Witness ==
    /\ contextMenu
    /\ Len(forwards) = 1
    /\ forwards[1].messageId = "c1m1"
    /\ forwards[1].chatId = "c1m2"
    /\ selectedMessage = Some("c1m2")

-----------------------------------------------------------------------------
(* C29: the text body of the stored messages *)

\* the characters of the texts of the model
Chars == {"h", "i", "y", "o", "a", " "}

\* a defined text: a string, possibly empty
IsText(body) == \A k \in 1..Len(body) : body[k] \in Chars

\* the remote message a stored message was mapped from, if any
RemoteOf(message) ==
    {r \in UNION {{RemoteMessages(c)[k] : k \in 1..Len(RemoteMessages(c))} : c \in ChatIds} :
        r.id = message.id}

\* C29: every message of the stored list has a defined text body: the remote
\* body for a fetched message with text, the empty string for a fetched message
\* without text, the text typed for a sent message; the bubble width of every
\* message is therefore a number, at most 350 for a text
C29_BodiesDefined ==
    \A k \in 1..Len(messages) :
        LET m == messages[k]
        IN  /\ IsText(m.text.body)
            /\ \A r \in RemoteOf(m) :
                  m.text.body = IF r.text = None THEN <<>> ELSE r.text[1].body
            /\ RemoteOf(m) = {} => m.from_me /\ m.text.body \in Drafts
            /\ BubbleWidth(m) \in 0..350

\* the list holds a fetched message that carried no text, stored with an empty
\* body, and a message sent after the refresh's message loop had stored its
\* response
C29_Witness ==
    /\ Len(messages) = 3
    /\ messages[1].id = "c1m2"
    /\ messages[1].text.body = <<>>
    /\ messages[3].id = "sent1"
    /\ messages[3].text.body = <<" ", "a">>
    /\ \E i \in LoopIndexes :
          loops[i].kind = "refreshMessages" /\ loops[i].phase = "success"
====
